---------------------------- MODULE Spec2Model ----------------------------
(***************************************************************************)
(* A model of scispacy/data_util.py: the MedMentions PubTator reader       *)
(* (process_example, med_mentions_example_iterator, read_full_med_mentions)*)
(* and the BIO reader (_handle_sentence, read_ner_from_tsv).               *)
(*                                                                         *)
(* Python strings are modelled as sequences of one-character strings, so   *)
(* that strip, split, startswith, int and upper are computed character by  *)
(* character as the interpreter computes them.                             *)
(***************************************************************************)
EXTENDS Integers, Sequences, FiniteSets, TLC

VARIABLES
    \* process_example called on its own
    pe_lines,            \* the argument `lines`
    pe_result,           \* what the call produced: NotCalled, a record or an exception
    \* _handle_sentence called on its own
    hs_examples,         \* the argument `examples`
    hs_result,           \* NotCalled or the returned (sent, {'entities': ...})
    \* read_ner_from_tsv
    tsv_file,            \* the lines of the file named by `filename`
    tsv_pos,             \* index of the next line the for loop reads
    tsv_pc,              \* "loop" | "returned" | "raised"
    examples,            \* the local list `examples`
    spacy_format_data,   \* the local list `spacy_format_data`
    flushed,             \* history: every argument _handle_sentence was called with
    \* read_full_med_mentions and the generator it drives
    present,             \* the file names that exist in the resolved directory
    id_files,            \* contents of the three ID files, as sets of stripped lines
    corpus,              \* the lines of corpus_pubtator.txt
    label_mapping,       \* the argument label_mapping (NoMapping for None)
    span_only,           \* the argument span_only
    spacy_format,        \* the argument spacy_format
    pc,                  \* position of read_full_med_mentions
    error,               \* the exception that left the call, or "None"
    train_ids,
    dev_ids,
    test_ids,
    train_examples,
    dev_examples,
    test_examples,
    example,             \* the loop variable `example`
    result,              \* the returned triple, or NoResult
    g_pc,                \* position of the generator med_mentions_example_iterator
    g_pos,               \* index of the next line the generator's for loop reads
    lines,               \* the generator's local list `lines`
    yielded,             \* history: the records the generator has yielded
    parsed               \* history: every argument process_example was called with

peVars  == <<pe_lines, pe_result>>
hsVars  == <<hs_examples, hs_result>>
tsvVars == <<tsv_file, tsv_pos, tsv_pc, examples, spacy_format_data, flushed>>
envVars == <<present, id_files, corpus, label_mapping, span_only, spacy_format>>
genVars == <<g_pc, g_pos, lines, yielded, parsed>>
splitVars == <<train_ids, dev_ids, test_ids, train_examples, dev_examples, test_examples>>
medVars == <<envVars, genVars, splitVars, pc, error, example, result>>
vars    == <<peVars, hsVars, tsvVars, medVars>>

-----------------------------------------------------------------------------
(* Python strings as sequences of characters *)

TAB == "\t"
SPACE == " "
PIPE == "|"
COMMA == ","

Whitespace == {SPACE, TAB, "\n"}

\* str.strip(): leading and trailing whitespace removed
RECURSIVE lstrip(_)
lstrip(s) == IF s # <<>> /\ Head(s) \in Whitespace THEN lstrip(Tail(s)) ELSE s

RECURSIVE rstrip(_)
rstrip(s) ==
    IF s # <<>> /\ s[Len(s)] \in Whitespace THEN rstrip(SubSeq(s, 1, Len(s) - 1)) ELSE s

strip(s) == rstrip(lstrip(s))

\* index of the first occurrence of the character sep in s, 0 when there is none
find(s, sep) ==
    IF \E i \in 1..Len(s) : s[i] = sep
    THEN CHOOSE i \in 1..Len(s) : s[i] = sep /\ \A j \in 1..(i - 1) : s[j] # sep
    ELSE 0

\* str.split(sep, maxsplit) for a one-character sep; maxsplit = -1 is "no limit"
RECURSIVE split(_, _, _)
split(s, sep, maxsplit) ==
    LET i == find(s, sep) IN
    IF maxsplit = 0 \/ i = 0
    THEN <<s>>
    ELSE <<SubSeq(s, 1, i - 1)>> \o split(SubSeq(s, i + 1, Len(s)), sep, maxsplit - 1)

\* str.startswith(prefix)
startswith(s, prefix) ==
    Len(s) >= Len(prefix) /\ SubSeq(s, 1, Len(prefix)) = prefix

\* str.upper() on the letters the model uses
Lower == <<"a", "b", "e", "g", "o", "p", "r">>
Upper == <<"A", "B", "E", "G", "O", "P", "R">>
upperChar(c) ==
    IF \E i \in 1..Len(Lower) : Lower[i] = c
    THEN Upper[CHOOSE i \in 1..Len(Lower) : Lower[i] = c]
    ELSE c
upper(s) == [i \in 1..Len(s) |-> upperChar(s[i])]

\* int(s): optional surrounding whitespace, an optional sign, then decimal digits
Digits == <<"0", "1", "2", "3", "4", "5", "6", "7", "8", "9">>
isDigit(c) == \E i \in 1..Len(Digits) : Digits[i] = c
digitValue(c) == (CHOOSE i \in 1..Len(Digits) : Digits[i] = c) - 1

RECURSIVE natValue(_)
natValue(s) ==
    IF s = <<>> THEN 0
    ELSE 10 * natValue(SubSeq(s, 1, Len(s) - 1)) + digitValue(s[Len(s)])

int(s) ==
    LET t == strip(s)
        signed == t # <<>> /\ Head(t) \in {"-", "+"}
        body == IF signed THEN Tail(t) ELSE t
    IN  IF body # <<>> /\ \A i \in 1..Len(body) : isDigit(body[i])
        THEN [ok |-> TRUE,
              value |-> IF signed /\ Head(t) = "-" THEN 0 - natValue(body) ELSE natValue(body)]
        ELSE [ok |-> FALSE, value |-> 0]

-----------------------------------------------------------------------------
(* process_example *)

MedMentionEntity(start, end, mention_text, mention_type, umls_id) ==
    [start |-> start, end |-> end, mention_text |-> mention_text,
     mention_type |-> mention_type, umls_id |-> umls_id]

MedMentionExample(title, abstract, text, pubmed_id, entities) ==
    [title |-> title, abstract |-> abstract, text |-> text,
     pubmed_id |-> pubmed_id, entities |-> entities]

NoExample == MedMentionExample(<<>>, <<>>, <<>>, <<>>, <<>>)
NoEntity == MedMentionEntity(0, 0, <<>>, <<>>, <<>>)

Returned(v) == [ok |-> TRUE, value |-> v, error |-> "None"]
Raised(e)   == [ok |-> FALSE, value |-> NoExample, error |-> e]
NotCalled   == [ok |-> FALSE, value |-> NoExample, error |-> "NotCalled"]

\* one pass of the loop body over an annotation line
parse_entity_swapped(entity_line) ==
    LET f == split(entity_line, TAB, -1) IN
    IF Len(f) # 6 \/ ~int(f[2]).ok \/ ~int(f[3]).ok
    THEN [ok |-> FALSE, value |-> NoEntity]
    ELSE [ok |-> TRUE,
          value |-> MedMentionEntity(int(f[3]).value, int(f[2]).value, f[4],
                                     split(f[5], COMMA, -1)[1], f[6])]

parse_entity(entity_line) ==
    LET f == split(entity_line, TAB, -1) IN
    IF Len(f) # 6 \/ ~int(f[2]).ok \/ ~int(f[3]).ok
    THEN [ok |-> FALSE, value |-> NoEntity]
    ELSE [ok |-> TRUE,
          value |-> MedMentionEntity(int(f[2]).value, int(f[3]).value, f[4],
                                     split(f[5], COMMA, -1)[1], f[6])]

process_example(ls) ==
    IF Len(ls) < 1 THEN Raised("IndexError")
    ELSE
    LET first == split(ls[1], PIPE, 2) IN
    IF Len(first) # 3 THEN Raised("ValueError")
    ELSE IF Len(ls) < 2 THEN Raised("IndexError")
    ELSE
    LET second == split(ls[2], PIPE, 2) IN
    IF Len(second) # 3 THEN Raised("ValueError")
    ELSE
    LET pubmed_id == strip(first[1])
        title == strip(first[3])
        abstract == strip(second[3])
        ents == [i \in 1..(Len(ls) - 2) |-> parse_entity(ls[i + 2])]
    IN  IF \E i \in 1..Len(ents) : ~ents[i].ok THEN Raised("ValueError")
        ELSE Returned(MedMentionExample(title, abstract, title \o <<SPACE>> \o abstract,
                                        pubmed_id,
                                        [i \in 1..Len(ents) |-> ents[i].value]))

-----------------------------------------------------------------------------
(* The lines the model reads *)

TitleLine(id) == <<id, PIPE, "t", PIPE, "A", id>>
AbstractLine(id) == <<id, PIPE, "a", PIPE, "B">>
EntityLine(id, start, end, type) ==
    <<id, TAB>> \o start \o <<TAB>> \o end \o <<TAB, "A", TAB>> \o type \o <<TAB, "C">>
\* an annotation line that lacks its last field
ShortEntityLine(id) == <<id, TAB, "0", TAB, "1", TAB, "A", TAB, "T">>

\* all strings over alphabet of length 1..n
RECURSIVE StringsUpTo(_, _)
StringsUpTo(alphabet, n) ==
    IF n = 0 THEN {}
    ELSE LET shorter == StringsUpTo(alphabet, n - 1) IN
         {<<c>> : c \in alphabet} \cup shorter
           \cup {s \o <<c>> : s \in shorter, c \in alphabet}

MaxFieldLen == 2
OffsetAlphabet == {"-", "0", "1", "2"}
OffsetFields == StringsUpTo(OffsetAlphabet, MaxFieldLen)

-----------------------------------------------------------------------------
(* Idle values of the variables a specification does not use *)

IdlePe == pe_lines = <<>> /\ pe_result = NotCalled

NoSentence == [ok |-> FALSE, sent |-> <<>>, entities |-> <<>>]
IdleHs == hs_examples = <<>> /\ hs_result = NoSentence

IdleTsv ==
    /\ tsv_file = <<>> /\ tsv_pos = 1 /\ tsv_pc = "idle"
    /\ examples = <<>> /\ spacy_format_data = <<>> /\ flushed = <<>>

NoMapping == [none |-> TRUE, table |-> <<>>]
NoResult == [returned |-> FALSE, train |-> <<>>, dev |-> <<>>, test |-> <<>>]

IdleMed ==
    /\ present = {} /\ id_files = <<{}, {}, {}>> /\ corpus = <<>>
    /\ label_mapping = NoMapping /\ span_only = FALSE /\ spacy_format = TRUE
    /\ pc = "idle" /\ error = "None" /\ example = NoExample /\ result = NoResult
    /\ train_ids = {} /\ dev_ids = {} /\ test_ids = {}
    /\ train_examples = <<>> /\ dev_examples = <<>> /\ test_examples = <<>>
    /\ g_pc = "idle" /\ g_pos = 1 /\ lines = <<>> /\ yielded = <<>> /\ parsed = <<>>

-----------------------------------------------------------------------------
(* SpecParse: process_example applied to one block of lines *)

PeBlocks ==
    {<<>>, <<TitleLine("1")>>, <<TitleLine("1"), AbstractLine("1")>>,
     <<TitleLine("1"), AbstractLine("1"), ShortEntityLine("1")>>,
     <<AbstractLine("1"), EntityLine("1", <<"0">>, <<"1">>, <<"T">>)>>}
    \cup {<<TitleLine("1"), AbstractLine("1"), EntityLine("1", s, e, <<"T", COMMA, "U">>)>> :
            s \in OffsetFields, e \in OffsetFields}

InitParse ==
    /\ pe_lines \in PeBlocks
    /\ pe_result = NotCalled
    /\ IdleHs /\ IdleTsv /\ IdleMed

ProcessExample ==
    /\ pe_result = NotCalled
    /\ pe_result' = process_example(pe_lines)
    /\ UNCHANGED <<pe_lines, hsVars, tsvVars, medVars>>

NextParse == ProcessExample

SpecParse == InitParse /\ [][NextParse]_vars

\* C7 as stated: every entity of an accepted block satisfies 0 <= start <= end.
C7_AsStated ==
    pe_result.ok =>
        \A i \in 1..Len(pe_result.value.entities) :
            LET en == pe_result.value.entities[i] IN 0 <= en.start /\ en.start <= en.end

\* the field of annotation line i that holds start (k = 2) or end (k = 3)
OffsetField(i, k) == split(pe_lines[i + 2], TAB, -1)[k]
\* the value of a string of the digits 0..2, most significant first
RECURSIVE Numeral(_)
Numeral(s) ==
    IF s = <<>> THEN 0
    ELSE 10 * Numeral(SubSeq(s, 1, Len(s) - 1))
           + (CASE s[Len(s)] = "0" -> 0 [] s[Len(s)] = "1" -> 1 [] s[Len(s)] = "2" -> 2)
\* the integer a start or end field denotes: a numeral, or "-" and a numeral
FieldValue(s) == IF Head(s) = "-" THEN 0 - Numeral(Tail(s)) ELSE Numeral(s)

\* C7 (amended): every entity of an accepted block carries the integers its start
\* and end fields denote, in that order and sign included, one entity per
\* annotation line; nothing orders them or keeps them from being negative.
C7_OffsetsAsWritten ==
    pe_result.ok =>
        /\ Len(pe_result.value.entities) = Len(pe_lines) - 2
        /\ \A i \in 1..Len(pe_result.value.entities) :
            LET en == pe_result.value.entities[i] IN
            /\ en.start = FieldValue(OffsetField(i, 2))
            /\ en.end = FieldValue(OffsetField(i, 3))

\* an accepted block whose entity starts below zero and ends before it starts
C7_Witness ==
    /\ pe_result.ok
    /\ \E i \in 1..Len(pe_result.value.entities) :
         LET en == pe_result.value.entities[i] IN en.start < 0 /\ en.end < en.start

-----------------------------------------------------------------------------
(* _handle_sentence *)

O == <<"O">>

\* the locals of _handle_sentence before the loop
HsStart ==
    [start_index |-> -1, current_index |-> 0, in_entity |-> FALSE,
     entity_type |-> <<>>, sent |-> <<>>, entities |-> <<>>]

\* the loop body with the joining space left out of the cursor
handle_word_no_space(st, word, entity) ==
    LET sent == st.sent \o word \o <<SPACE>> IN
    IF entity # O
    THEN IF st.in_entity
         THEN [st EXCEPT !.sent = sent, !.current_index = @ + Len(word)]
         ELSE [st EXCEPT !.sent = sent,
                         !.start_index = st.current_index,
                         !.in_entity = TRUE,
                         !.entity_type = upper(SubSeq(entity, 3, Len(entity))),
                         !.current_index = @ + Len(word)]
    ELSE [st EXCEPT !.sent = sent,
                    !.entities = IF st.in_entity
                                 THEN Append(@, <<st.start_index, st.current_index - 1,
                                                  st.entity_type>>)
                                 ELSE @,
                    !.in_entity = FALSE,
                    !.entity_type = <<>>,
                    !.start_index = -1,
                    !.current_index = @ + Len(word)]

\* the loop body with the sentence built without joining spaces
handle_word_no_join(st, word, entity) ==
    LET sent == st.sent \o word IN
    IF entity # O
    THEN IF st.in_entity
         THEN [st EXCEPT !.sent = sent, !.current_index = @ + (Len(word) + 1)]
         ELSE [st EXCEPT !.sent = sent,
                         !.start_index = st.current_index,
                         !.in_entity = TRUE,
                         !.entity_type = upper(SubSeq(entity, 3, Len(entity))),
                         !.current_index = @ + (Len(word) + 1)]
    ELSE [st EXCEPT !.sent = sent,
                    !.entities = IF st.in_entity
                                 THEN Append(@, <<st.start_index, st.current_index - 1,
                                                  st.entity_type>>)
                                 ELSE @,
                    !.in_entity = FALSE,
                    !.entity_type = <<>>,
                    !.start_index = -1,
                    !.current_index = @ + (Len(word) + 1)]

\* the loop body that also closes a span and opens another when the tag changes
handle_word_retag(st, word, entity) ==
    LET sent == st.sent \o word \o <<SPACE>>
        type == upper(SubSeq(entity, 3, Len(entity)))
    IN
    IF entity # O
    THEN IF st.in_entity /\ st.entity_type = type
         THEN [st EXCEPT !.sent = sent, !.current_index = @ + (Len(word) + 1)]
         ELSE [st EXCEPT !.sent = sent,
                         !.entities = IF st.in_entity
                                      THEN Append(@, <<st.start_index, st.current_index - 1,
                                                       st.entity_type>>)
                                      ELSE @,
                         !.start_index = st.current_index,
                         !.in_entity = TRUE,
                         !.entity_type = type,
                         !.current_index = @ + (Len(word) + 1)]
    ELSE [st EXCEPT !.sent = sent,
                    !.entities = IF st.in_entity
                                 THEN Append(@, <<st.start_index, st.current_index - 1,
                                                  st.entity_type>>)
                                 ELSE @,
                    !.in_entity = FALSE,
                    !.entity_type = <<>>,
                    !.start_index = -1,
                    !.current_index = @ + (Len(word) + 1)]

\* one pass of `for word, entity in examples`
handle_word(st, word, entity) ==
    LET sent == st.sent \o word \o <<SPACE>> IN
    IF entity # O
    THEN IF st.in_entity
         THEN [st EXCEPT !.sent = sent, !.current_index = @ + (Len(word) + 1)]
         ELSE [st EXCEPT !.sent = sent,
                         !.start_index = st.current_index,
                         !.in_entity = TRUE,
                         !.entity_type = upper(SubSeq(entity, 3, Len(entity))),
                         !.current_index = @ + (Len(word) + 1)]
    ELSE [st EXCEPT !.sent = sent,
                    !.entities = IF st.in_entity
                                 THEN Append(@, <<st.start_index, st.current_index - 1,
                                                  st.entity_type>>)
                                 ELSE @,
                    !.in_entity = FALSE,
                    !.entity_type = <<>>,
                    !.start_index = -1,
                    !.current_index = @ + (Len(word) + 1)]

\* the locals after the loop has run over exs
RECURSIVE handle_loop(_)
handle_loop(exs) ==
    IF exs = <<>> THEN HsStart
    ELSE LET last == exs[Len(exs)] IN
         handle_word(handle_loop(SubSeq(exs, 1, Len(exs) - 1)), last[1], last[2])

\* what follows the loop: the open span is closed, the last space removed
handle_finish(st) ==
    [ok |-> TRUE,
     sent |-> SubSeq(st.sent, 1, Len(st.sent) - 1),
     entities |-> IF st.in_entity
                  THEN Append(st.entities,
                              <<st.start_index, st.current_index - 1, st.entity_type>>)
                  ELSE st.entities]

_handle_sentence(exs) == handle_finish(handle_loop(exs))

-----------------------------------------------------------------------------
(* SpecSent: _handle_sentence applied to one sentence *)

John == <<"J", "o", "h", "n">>
Smith == <<"S", "m", "i", "t", "h">>
died == <<"d", "i", "e", "d">>
B_PER == <<"B", "-", "P", "E", "R">>
I_PER == <<"I", "-", "P", "E", "R">>
B_org == <<"B", "-", "o", "r", "g">>

\* words: three plain ones, one holding a space, and the empty word
Words == {John, Smith, died, <<"a", SPACE, "b">>, <<>>}
Tags == {O, B_PER, I_PER, B_org}

MaxWords == 3

RECURSIVE SeqsUpTo(_, _)
SeqsUpTo(S, n) ==
    IF n = 0 THEN {<<>>}
    ELSE LET shorter == SeqsUpTo(S, n - 1) IN
         shorter \cup {Append(q, x) : q \in shorter, x \in S}

InitSent ==
    /\ hs_examples \in SeqsUpTo(Words \X Tags, MaxWords)
    /\ hs_result = NoSentence
    /\ IdlePe /\ IdleTsv /\ IdleMed

HandleSentence ==
    /\ ~hs_result.ok
    /\ hs_result' = _handle_sentence(hs_examples)
    /\ UNCHANGED <<hs_examples, peVars, tsvVars, medVars>>

NextSent == HandleSentence

SpecSent == InitSent /\ [][NextSent]_vars

HsWord(k) == hs_examples[k][1]
HsTag(k) == hs_examples[k][2]
HsLen == Len(hs_examples)

\* the words of the sentence joined with single spaces
RECURSIVE JoinWords(_)
JoinWords(ws) ==
    IF ws = <<>> THEN <<>>
    ELSE IF Len(ws) = 1 THEN ws[1]
    ELSE ws[1] \o <<SPACE>> \o JoinWords(Tail(ws))

\* the offset of word k in the space-joined sentence
RECURSIVE WordOffset(_)
WordOffset(k) == IF k = 1 THEN 0 ELSE WordOffset(k - 1) + Len(HsWord(k - 1)) + 1

\* the positions where a maximal run of non-"O" tags begins
RunStarts == {i \in 1..HsLen : HsTag(i) # O /\ (i = 1 \/ HsTag(i - 1) = O)}
\* the last position of the run that begins at i
RunEnd(i) ==
    CHOOSE j \in i..HsLen :
        /\ \A k \in i..j : HsTag(k) # O
        /\ j = HsLen \/ HsTag(j + 1) = O
\* the k-th smallest element of a set of numbers
RECURSIVE Nth(_, _)
Nth(S, k) ==
    LET least == CHOOSE x \in S : \A y \in S : x <= y IN
    IF k = 1 THEN least ELSE Nth(S \ {least}, k - 1)

\* C4: one span per maximal run of non-"O" tags, in sentence order; it starts at
\* the offset of the run's first word, ends just past the run's last word (one
\* before the offset of the closing "O" word, or the sentence length when the run
\* reaches the end), and carries the run's first tag without its two-character
\* prefix, uppercased. When no word is empty, spans are non-empty, inside the
\* sentence and separated.
C4_OneSpanPerRun ==
    hs_result.ok =>
        LET ents == hs_result.entities IN
        /\ Len(ents) = Cardinality(RunStarts)
        /\ \A k \in 1..Len(ents) :
            LET i == Nth(RunStarts, k)
                j == RunEnd(i)
            IN  /\ ents[k][1] = WordOffset(i)
                /\ ents[k][2] = WordOffset(j) + Len(HsWord(j))
                /\ ents[k][2] = IF j = HsLen THEN Len(hs_result.sent)
                                ELSE WordOffset(j + 1) - 1
                /\ ents[k][3] = upper(SubSeq(HsTag(i), 3, Len(HsTag(i))))
        /\ (\A k \in 1..HsLen : HsWord(k) # <<>>) =>
            /\ \A k \in 1..Len(ents) :
                 0 <= ents[k][1] /\ ents[k][1] < ents[k][2]
                   /\ ents[k][2] <= Len(hs_result.sent)
            /\ \A k \in 1..(Len(ents) - 1) : ents[k][2] < ents[k + 1][1]

\* a sentence whose run changes tag midway (B-org then I-PER) and is closed by "O"
C4_Witness ==
    /\ hs_result.ok
    /\ HsLen = 3
    /\ HsTag(1) = B_org /\ HsTag(2) = I_PER /\ HsTag(3) = O
    /\ HsWord(1) = John /\ HsWord(2) = Smith
    /\ hs_result.entities = <<<<0, 10, <<"O", "R", "G">>>>>>

Scenario2 == <<<<John, B_PER>>, <<Smith, I_PER>>, <<died, O>>>>
JohnSmithDied == John \o <<SPACE>> \o Smith \o <<SPACE>> \o died
PER == <<"P", "E", "R">>

\* C5 as stated: Scenario 2 returns "John Smith died" and [(0, 9, "PER")].
C5_AsStated ==
    (hs_examples = Scenario2 /\ hs_result.ok) =>
        /\ hs_result.sent = JohnSmithDied
        /\ hs_result.entities = <<<<0, 9, PER>>>>

\* C5 (amended): Scenario 2 returns "John Smith died" and [(0, 10, "PER")]: a span
\* closed by an "O" tag ends one past the last character of the entity's last
\* word, so that the characters from start up to end, end excluded, are the entity.
C5_Scenario2 ==
    (hs_examples = Scenario2 /\ hs_result.ok) =>
        /\ hs_result.sent = JohnSmithDied
        /\ hs_result.entities = <<<<0, 10, PER>>>>
        /\ SubSeq(hs_result.sent, 0 + 1, 10) = John \o <<SPACE>> \o Smith

C5_Witness == hs_examples = Scenario2 /\ hs_result.ok

HsWords == [k \in 1..HsLen |-> HsWord(k)]
NoSpaceInWords == \A k \in 1..HsLen : \A c \in 1..Len(HsWord(k)) : HsWord(k)[c] # SPACE

\* C6 as stated: for every non-empty sequence the sentence is the words joined
\* with single spaces, and splitting it on single spaces gives the words back.
C6_AsStated ==
    (hs_result.ok /\ HsLen > 0) =>
        /\ hs_result.sent = JoinWords(HsWords)
        /\ split(hs_result.sent, SPACE, -1) = HsWords

\* C6 (amended): for every non-empty sequence the sentence is the words joined
\* with single spaces (no trailing space); splitting it on single spaces gives
\* the words back exactly when no word holds a space.
C6_RoundTrip ==
    (hs_result.ok /\ HsLen > 0) =>
        /\ hs_result.sent = JoinWords(HsWords)
        /\ (split(hs_result.sent, SPACE, -1) = HsWords) <=> NoSpaceInWords

\* three words, none with a space, one of them empty, split back from the sentence
C6_Witness ==
    /\ hs_result.ok /\ HsLen = 3 /\ NoSpaceInWords
    /\ HsWord(2) = <<>>
    /\ split(hs_result.sent, SPACE, -1) = HsWords

-----------------------------------------------------------------------------
(* SpecBio: read_ner_from_tsv *)

DOCSTART == <<"-", "D", "O", "C", "S", "T", "A", "R", "T", "-">>

BlankLine == <<>>
DocStartLine == DOCSTART \o <<TAB, "O">>
WordLineA == <<"a", TAB, "O", SPACE>>
WordLineB == <<"b", TAB>> \o B_PER
OneFieldLine == <<"x">>

TsvLines == {BlankLine, DocStartLine, WordLineA, WordLineB, OneFieldLine}

MaxTsvLines == 5

InitBio ==
    /\ tsv_file \in SeqsUpTo(TsvLines, MaxTsvLines)
    /\ tsv_pos = 1
    /\ tsv_pc = "loop"
    /\ examples = <<>>
    /\ spacy_format_data = <<>>
    /\ flushed = <<>>
    /\ IdlePe /\ IdleHs /\ IdleMed

TsvAtLine == tsv_pc = "loop" /\ tsv_pos <= Len(tsv_file)
TsvLine == strip(tsv_file[tsv_pos])

\* the blank-line branch without the test for an empty buffer
TsvBlankAlwaysFlush ==
    /\ TsvAtLine
    /\ ~startswith(TsvLine, DOCSTART)
    /\ TsvLine = <<>>
    /\ spacy_format_data' = Append(spacy_format_data, _handle_sentence(examples))
    /\ flushed' = Append(flushed, examples)
    /\ examples' = <<>>
    /\ tsv_pos' = tsv_pos + 1
    /\ UNCHANGED <<tsv_file, tsv_pc, peVars, hsVars, medVars>>

\* a line that starts with -DOCSTART-: continue
TsvDocStart ==
    /\ TsvAtLine
    /\ startswith(TsvLine, DOCSTART)
    /\ tsv_pos' = tsv_pos + 1
    /\ UNCHANGED <<tsv_file, tsv_pc, examples, spacy_format_data, flushed,
                   peVars, hsVars, medVars>>

\* a blank line: the end of a sentence, unless the buffer is empty
TsvBlank ==
    /\ TsvAtLine
    /\ ~startswith(TsvLine, DOCSTART)
    /\ TsvLine = <<>>
    /\ IF examples = <<>>
       THEN UNCHANGED <<examples, spacy_format_data, flushed>>
       ELSE /\ spacy_format_data' = Append(spacy_format_data, _handle_sentence(examples))
            /\ flushed' = Append(flushed, examples)
            /\ examples' = <<>>
    /\ tsv_pos' = tsv_pos + 1
    /\ UNCHANGED <<tsv_file, tsv_pc, peVars, hsVars, medVars>>

\* any other line: word, entity = line.split("\t")
TsvWord ==
    /\ TsvAtLine
    /\ ~startswith(TsvLine, DOCSTART)
    /\ TsvLine # <<>>
    /\ LET fields == split(TsvLine, TAB, -1) IN
       IF Len(fields) = 2
       THEN /\ examples' = Append(examples, <<fields[1], fields[2]>>)
            /\ tsv_pos' = tsv_pos + 1
            /\ UNCHANGED tsv_pc
       ELSE /\ tsv_pc' = "raised"
            /\ UNCHANGED <<examples, tsv_pos>>
    /\ UNCHANGED <<tsv_file, spacy_format_data, flushed, peVars, hsVars, medVars>>

\* after the loop: the buffer left over is flushed, the list returned
TsvReturn ==
    /\ tsv_pc = "loop" /\ tsv_pos > Len(tsv_file)
    /\ IF examples = <<>>
       THEN UNCHANGED <<spacy_format_data, flushed>>
       ELSE /\ spacy_format_data' = Append(spacy_format_data, _handle_sentence(examples))
            /\ flushed' = Append(flushed, examples)
    /\ tsv_pc' = "returned"
    /\ UNCHANGED <<tsv_file, tsv_pos, examples, peVars, hsVars, medVars>>

NextBio == TsvDocStart \/ TsvBlank \/ TsvWord \/ TsvReturn

SpecBio == InitBio /\ [][NextBio]_vars

\* a sequence cut at every element equal to sep
RECURSIVE CutAt(_, _)
CutAt(q, sep) ==
    IF \E i \in 1..Len(q) : q[i] = sep
    THEN LET i == CHOOSE k \in 1..Len(q) : q[k] = sep /\ \A m \in 1..(k - 1) : q[m] # sep
         IN  <<SubSeq(q, 1, i - 1)>> \o CutAt(SubSeq(q, i + 1, Len(q)), sep)
    ELSE <<q>>

IsNotDocStart(l) == ~startswith(l, DOCSTART)
IsNonEmpty(q) == q # <<>>
\* the (word, tag) lines of the file, grouped: the -DOCSTART- lines are taken out,
\* the rest is cut at the blank lines, and the empty groups are dropped
TsvGroups ==
    LET stripped == [i \in 1..Len(tsv_file) |-> strip(tsv_file[i])]
        groups == SelectSeq(CutAt(SelectSeq(stripped, IsNotDocStart), <<>>), IsNonEmpty)
    IN  [g \in 1..Len(groups) |->
            [k \in 1..Len(groups[g]) |->
                LET f == split(groups[g][k], TAB, -1) IN <<f[1], f[2]>>]]

\* C10: the returned list holds, in file order, one example per maximal group of
\* (word, tag) lines between blank lines or the end of the file; -DOCSTART- lines
\* neither cut nor clear a group; no example is ever built from an empty buffer,
\* and the buffer left at the end of the file is flushed once.
C10_OnePerGroup ==
    /\ \A k \in 1..Len(flushed) : flushed[k] # <<>>
    /\ Len(spacy_format_data) = Len(flushed)
    /\ tsv_pc = "returned" =>
        /\ flushed = TsvGroups
        /\ spacy_format_data = [g \in 1..Len(TsvGroups) |-> _handle_sentence(TsvGroups[g])]

\* -DOCSTART- then a blank line, then two word lines with a -DOCSTART- line
\* between them and no blank line at the end: one sentence of two words
C10_Witness ==
    /\ tsv_pc = "returned"
    /\ tsv_file = <<DocStartLine, BlankLine, WordLineA, DocStartLine, WordLineB>>
    /\ flushed = <<<<<<<<"a">>, O>>, <<<<"b">>, B_PER>>>>>>
    /\ Len(spacy_format_data) = 1
    /\ spacy_format_data[1].sent = <<"a", SPACE, "b">>

-----------------------------------------------------------------------------
(* read_full_med_mentions and med_mentions_example_iterator *)

expected_names ==
    <<"corpus_pubtator.txt",
      "corpus_pubtator_pmids_all.txt",
      "corpus_pubtator_pmids_dev.txt",
      "corpus_pubtator_pmids_test.txt",
      "corpus_pubtator_pmids_trng.txt">>

ENTITY == <<"E", "N", "T", "I", "T", "Y">>

\* label_function with the table consulted before span_only
label_function_table_first(label) ==
    IF label_mapping.none
    THEN [ok |-> TRUE, value |-> IF span_only THEN ENTITY ELSE label]
    ELSE IF label \in DOMAIN label_mapping.table
    THEN [ok |-> TRUE, value |-> IF span_only THEN ENTITY ELSE label_mapping.table[label]]
    ELSE [ok |-> FALSE, value |-> <<>>]

\* the nested label_function; ok is FALSE where label_mapping[label] raises KeyError
label_function(label) ==
    IF span_only THEN [ok |-> TRUE, value |-> ENTITY]
    ELSE IF label_mapping.none THEN [ok |-> TRUE, value |-> label]
    ELSE IF label \in DOMAIN label_mapping.table
    THEN [ok |-> TRUE, value |-> label_mapping.table[label]]
    ELSE [ok |-> FALSE, value |-> <<>>]

\* (example.text, {"entities": spacy_format_entities})
spacy_example_of(ex) ==
    [text |-> ex.text,
     entities |-> [i \in 1..Len(ex.entities) |->
                     <<ex.entities[i].start, ex.entities[i].end,
                       label_function(ex.entities[i].mention_type).value>>]]

\* the three ID files read as empty sets when they are missing
SetupLenient ==
    /\ pc = "start"
    /\ g_pc' = "created"
    /\ train_ids' = IF expected_names[5] \in present THEN id_files[1] ELSE {}
    /\ dev_ids' = IF expected_names[3] \in present THEN id_files[2] ELSE {}
    /\ test_ids' = IF expected_names[4] \in present THEN id_files[3] ELSE {}
    /\ pc' = "loop"
    /\ UNCHANGED <<error, train_examples, dev_examples, test_examples>>
    /\ UNCHANGED <<envVars, g_pos, lines, yielded, parsed, example, result,
                   peVars, hsVars, tsvVars>>

\* The generator object is made (nothing is opened yet), then the three ID files
\* are opened and read in the order trng, dev, test.
Setup ==
    /\ pc = "start"
    /\ g_pc' = "created"
    /\ IF expected_names[5] \notin present
       THEN /\ pc' = "raised" /\ error' = "FileNotFoundError"
            /\ UNCHANGED <<train_ids, dev_ids, test_ids>>
       ELSE IF expected_names[3] \notin present
       THEN /\ pc' = "raised" /\ error' = "FileNotFoundError"
            /\ train_ids' = id_files[1]
            /\ UNCHANGED <<dev_ids, test_ids>>
       ELSE IF expected_names[4] \notin present
       THEN /\ pc' = "raised" /\ error' = "FileNotFoundError"
            /\ train_ids' = id_files[1] /\ dev_ids' = id_files[2]
            /\ UNCHANGED test_ids
       ELSE /\ pc' = "loop"
            /\ train_ids' = id_files[1] /\ dev_ids' = id_files[2]
            /\ test_ids' = id_files[3]
            /\ UNCHANGED error
    /\ UNCHANGED <<train_examples, dev_examples, test_examples>>
    /\ UNCHANGED <<envVars, g_pos, lines, yielded, parsed, example, result,
                   peVars, hsVars, tsvVars>>

\* the generator runs only while the for loop of the caller waits in next()
GenRuns == pc = "loop"

GenUnchanged == UNCHANGED <<envVars, splitVars, result, peVars, hsVars, tsvVars>>

\* first next(): the body starts, the corpus file is opened
IterOpen ==
    /\ GenRuns /\ g_pc = "created"
    /\ IF expected_names[1] \in present
       THEN /\ g_pc' = "reading" /\ g_pos' = 1 /\ lines' = <<>>
            /\ UNCHANGED <<pc, error>>
       ELSE /\ g_pc' = "raised" /\ pc' = "raised" /\ error' = "FileNotFoundError"
            /\ UNCHANGED <<g_pos, lines>>
    /\ UNCHANGED <<yielded, parsed, example>>
    /\ GenUnchanged

GenAtLine == GenRuns /\ g_pc = "reading" /\ g_pos <= Len(corpus)
GenLine == strip(corpus[g_pos])

\* a non-blank line is appended to the buffer
IterLine ==
    /\ GenAtLine
    /\ GenLine # <<>>
    /\ lines' = Append(lines, GenLine)
    /\ g_pos' = g_pos + 1
    /\ UNCHANGED <<g_pc, yielded, parsed, pc, error, example>>
    /\ GenUnchanged

\* process_example(lines), then yield at where: the record goes to the caller,
\* or the exception leaves the generator and the caller
ParseAndYield(where) ==
    LET r == process_example(lines) IN
    /\ parsed' = Append(parsed, lines)
    /\ IF r.ok
       THEN /\ yielded' = Append(yielded, r.value)
            /\ example' = r.value
            /\ g_pc' = where
            /\ pc' = "body"
            /\ UNCHANGED error
       ELSE /\ g_pc' = "raised" /\ pc' = "raised" /\ error' = r.error
            /\ UNCHANGED <<yielded, example>>

\* a blank line that is skipped when nothing is buffered
IterBlankSkipsEmpty ==
    /\ GenAtLine
    /\ GenLine = <<>>
    /\ IF lines = <<>>
       THEN UNCHANGED <<parsed, yielded, example, g_pc, pc, error>>
       ELSE ParseAndYield("yielded")
    /\ IF lines = <<>> \/ process_example(lines).ok
       THEN g_pos' = g_pos + 1 ELSE UNCHANGED g_pos
    /\ UNCHANGED lines
    /\ GenUnchanged

\* a blank line: the buffer is parsed and the record yielded
IterBlank ==
    /\ GenAtLine
    /\ GenLine = <<>>
    /\ ParseAndYield("yielded")
    /\ IF process_example(lines).ok THEN g_pos' = g_pos + 1 ELSE UNCHANGED g_pos
    /\ UNCHANGED lines
    /\ GenUnchanged

\* the generator resumed without its buffer being cleared
IterResumeKeepsLines ==
    /\ GenRuns /\ g_pc = "yielded"
    /\ g_pc' = "reading"
    /\ UNCHANGED <<lines, g_pos, yielded, parsed, pc, error, example>>
    /\ GenUnchanged

\* next() after the yield in the loop: lines = []
IterResume ==
    /\ GenRuns /\ g_pc = "yielded"
    /\ lines' = <<>>
    /\ g_pc' = "reading"
    /\ UNCHANGED <<g_pos, yielded, parsed, pc, error, example>>
    /\ GenUnchanged

\* the end of the file: the stragglers are parsed and yielded, or the generator ends
IterEnd ==
    /\ GenRuns /\ g_pc = "reading" /\ g_pos > Len(corpus)
    /\ IF lines # <<>>
       THEN ParseAndYield("straggler")
       ELSE /\ g_pc' = "finished" /\ pc' = "exhausted"
            /\ UNCHANGED <<parsed, yielded, example, error>>
    /\ UNCHANGED <<g_pos, lines>>
    /\ GenUnchanged

\* next() after the yield of the stragglers: the generator ends
IterFinish ==
    /\ GenRuns /\ g_pc = "straggler"
    /\ g_pc' = "finished" /\ pc' = "exhausted"
    /\ UNCHANGED <<g_pos, lines, yielded, parsed, error, example>>
    /\ GenUnchanged

Labelled(ex) == \A i \in 1..Len(ex.entities) : label_function(ex.entities[i].mention_type).ok
Item(ex) == IF spacy_format THEN spacy_example_of(ex) ELSE ex

BodyUnchanged ==
    UNCHANGED <<envVars, genVars, train_ids, dev_ids, test_ids, example, result,
                peVars, hsVars, tsvVars>>

\* the loop body with three independent tests instead of if/elif/elif
BodyNoElif ==
    /\ pc = "body"
    /\ IF ~Labelled(example)
       THEN /\ pc' = "raised" /\ error' = "KeyError"
            /\ UNCHANGED <<train_examples, dev_examples, test_examples>>
       ELSE /\ pc' = "loop" /\ UNCHANGED error
            /\ train_examples' = IF example.pubmed_id \in train_ids
                                 THEN Append(train_examples, Item(example))
                                 ELSE train_examples
            /\ dev_examples' = IF example.pubmed_id \in dev_ids
                               THEN Append(dev_examples, Item(example))
                               ELSE dev_examples
            /\ test_examples' = IF example.pubmed_id \in test_ids
                                THEN Append(test_examples, Item(example))
                                ELSE test_examples
    /\ BodyUnchanged

\* the loop body: every entity is labelled, then the record is routed
Body ==
    /\ pc = "body"
    /\ IF ~Labelled(example)
       THEN /\ pc' = "raised" /\ error' = "KeyError"
            /\ UNCHANGED <<train_examples, dev_examples, test_examples>>
       ELSE /\ pc' = "loop" /\ UNCHANGED error
            /\ IF example.pubmed_id \in train_ids
               THEN /\ train_examples' = Append(train_examples, Item(example))
                    /\ UNCHANGED <<dev_examples, test_examples>>
               ELSE IF example.pubmed_id \in dev_ids
               THEN /\ dev_examples' = Append(dev_examples, Item(example))
                    /\ UNCHANGED <<train_examples, test_examples>>
               ELSE IF example.pubmed_id \in test_ids
               THEN /\ test_examples' = Append(test_examples, Item(example))
                    /\ UNCHANGED <<train_examples, dev_examples>>
               ELSE UNCHANGED <<train_examples, dev_examples, test_examples>>
    /\ BodyUnchanged

\* return train_examples, dev_examples, test_examples
Return ==
    /\ pc = "exhausted"
    /\ pc' = "returned"
    /\ result' = [returned |-> TRUE, train |-> train_examples,
                  dev |-> dev_examples, test |-> test_examples]
    /\ UNCHANGED <<envVars, genVars, splitVars, error, example, peVars, hsVars, tsvVars>>

NextMed ==
    \/ Setup
    \/ IterOpen
    \/ IterLine
    \/ IterBlank
    \/ IterResume
    \/ IterEnd
    \/ IterFinish
    \/ Body
    \/ Return

Names == {expected_names[i] : i \in 1..Len(expected_names)}

InitMedLocals ==
    /\ pc = "start" /\ error = "None" /\ example = NoExample /\ result = NoResult
    /\ train_ids = {} /\ dev_ids = {} /\ test_ids = {}
    /\ train_examples = <<>> /\ dev_examples = <<>> /\ test_examples = <<>>
    /\ g_pc = "none" /\ g_pos = 1 /\ lines = <<>> /\ yielded = <<>> /\ parsed = <<>>
    /\ IdlePe /\ IdleHs /\ IdleTsv

Id1 == <<"1">>
Id2 == <<"2">>
TypeT == <<"T">>
TypeU == <<"U">>

-----------------------------------------------------------------------------
(* SpecMed: read_full_med_mentions over corpora of well-formed blocks *)

MaxBlocks == 2

Block1T == <<TitleLine("1"), AbstractLine("1"), EntityLine("1", <<"0">>, <<"1">>, TypeT)>>
Block2U ==
    <<TitleLine("2"), AbstractLine("2"),
      EntityLine("2", <<"2">>, <<"3">>, TypeU \o <<COMMA>> \o TypeT)>>
MedBlocks == {Block1T, Block2U}

\* the blocks one after the other, a blank line after each
RECURSIVE BlankSeparated(_)
BlankSeparated(bs) ==
    IF bs = <<>> THEN <<>> ELSE Head(bs) \o <<BlankLine>> \o BlankSeparated(Tail(bs))

\* every corpus of at most MaxBlocks blocks, with and without the last blank line
MedCorpora ==
    LET full == {BlankSeparated(bs) : bs \in SeqsUpTo(MedBlocks, MaxBlocks)} IN
    full \cup {SubSeq(c, 1, Len(c) - 1) : c \in full \ {<<>>}}

Mappings == {NoMapping, [none |-> FALSE, table |-> (TypeT :> <<"X">>)]}

InitMed ==
    /\ present \in {Names} \cup {Names \ {n} : n \in Names}
    /\ id_files \in (SUBSET {Id1, Id2}) \X (SUBSET {Id1, Id2}) \X (SUBSET {Id1, Id2})
    /\ corpus \in MedCorpora
    /\ label_mapping \in Mappings
    /\ span_only \in BOOLEAN
    /\ spacy_format \in BOOLEAN
    /\ InitMedLocals

SpecMed == InitMed /\ [][NextMed]_vars

-----------------------------------------------------------------------------
(* SpecIter: the generator over arbitrary corpus files *)

MaxCorpusLines == 6

IterLines ==
    {BlankLine, TitleLine("1"), AbstractLine("2"),
     EntityLine("1", <<"0">>, <<"1">>, TypeT)}

InitIter ==
    /\ present = Names
    /\ id_files = <<{Id1}, {Id2}, {}>>
    /\ corpus \in SeqsUpTo(IterLines, MaxCorpusLines)
    /\ label_mapping = NoMapping
    /\ span_only = FALSE
    /\ spacy_format = TRUE
    /\ InitMedLocals

SpecIter == InitIter /\ [][NextMed]_vars

-----------------------------------------------------------------------------
(* Properties of read_full_med_mentions *)

\* the records the loop body has dealt with: all that were yielded, but the one
\* the body holds now or failed on
Processed ==
    IF pc = "body" \/ (pc = "raised" /\ error = "KeyError")
    THEN SubSeq(yielded, 1, Len(yielded) - 1)
    ELSE yielded

InTrain(ex) == ex.pubmed_id \in id_files[1]
InDev(ex) == ex.pubmed_id \notin id_files[1] /\ ex.pubmed_id \in id_files[2]
InTest(ex) ==
    /\ ex.pubmed_id \notin id_files[1] /\ ex.pubmed_id \notin id_files[2]
    /\ ex.pubmed_id \in id_files[3]

Texts(q) == [k \in 1..Len(q) |-> q[k].text]

\* C1: each list is, in corpus order, the records whose pubmed_id is in the train
\* set; else in the dev set; else in the test set. A record in none of the sets is
\* in no list, and no record is in two lists.
C1_Routing ==
    /\ Texts(train_examples) = Texts(SelectSeq(Processed, InTrain))
    /\ Texts(dev_examples) = Texts(SelectSeq(Processed, InDev))
    /\ Texts(test_examples) = Texts(SelectSeq(Processed, InTest))
    /\ ~spacy_format =>
        /\ train_examples = SelectSeq(Processed, InTrain)
        /\ dev_examples = SelectSeq(Processed, InDev)
        /\ test_examples = SelectSeq(Processed, InTest)
    /\ result.returned =>
        /\ result.train = train_examples
        /\ result.dev = dev_examples
        /\ result.test = test_examples
        /\ Processed = yielded

\* the call has returned; the dev set overlaps both others; the two records went
\* to train (ID in all three sets) and to dev (ID in dev and test), raw
C1_Witness ==
    /\ result.returned
    /\ ~spacy_format
    /\ id_files = <<{Id1}, {Id1, Id2}, {Id1, Id2}>>
    /\ Len(yielded) = 2
    /\ result.train = <<yielded[2]>>
    /\ result.dev = <<yielded[1]>>
    /\ result.test = <<>>

Opened == {expected_names[1], expected_names[3], expected_names[4], expected_names[5]}

\* C2 as stated: with any of the five files missing the call does not return.
C2_AsStated == present # Names => pc # "returned"

\* C2 (amended): the call fails with a file-not-found error, and returns no
\* lists, whenever the directory lacks corpus_pubtator.txt or one of the dev,
\* test and trng ID files: a missing ID file fails it before anything is read, a
\* missing corpus at the first step of the loop. corpus_pubtator_pmids_all.txt is
\* never opened, and a directory that lacks only that file is read as usual.
C2_MissingFile ==
    /\ (Opened \ present # {}) =>
        /\ pc \in {"start", "loop", "raised"}
        /\ pc = "raised" => error = "FileNotFoundError"
        /\ pc = "loop" => (g_pc = "created" /\ expected_names[1] \notin present)
        /\ ~result.returned
        /\ yielded = <<>> /\ train_examples = <<>> /\ dev_examples = <<>>
        /\ test_examples = <<>>
    /\ error = "FileNotFoundError" => (pc = "raised" /\ Opened \ present # {})

\* the corpus file is the missing one: the ID files were read, then the call failed
C2_Witness ==
    /\ present = Names \ {expected_names[1]}
    /\ pc = "raised" /\ error = "FileNotFoundError"
    /\ id_files[1] # {} /\ train_ids = id_files[1]

\* the label C3 gives an entity of type t
PolicyLabel(t) ==
    IF span_only THEN ENTITY
    ELSE IF label_mapping.none THEN t
    ELSE label_mapping.table[t]

\* a table is given, span_only is off, and the table lacks a type of ex
Unmapped(ex) ==
    /\ ~span_only /\ ~label_mapping.none
    /\ \E i \in 1..Len(ex.entities) :
         ex.entities[i].mention_type \notin DOMAIN label_mapping.table

\* the entities of the records q, each with the label the policy gives it
PolicyEntities(q) ==
    [k \in 1..Len(q) |->
        [i \in 1..Len(q[k].entities) |->
            <<q[k].entities[i].start, q[k].entities[i].end,
              PolicyLabel(q[k].entities[i].mention_type)>>]]

EntitiesOf(q) == [k \in 1..Len(q) |-> q[k].entities]

\* C3: labels are "ENTITY" under span_only, else the raw type without a table,
\* else the table's entry. A record with a type the table lacks (span_only off)
\* fails the call with a lookup error as soon as the loop body gets it, whatever
\* its ID and whatever spacy_format: it is the last record yielded, it is in no
\* list, and nothing is returned. Under span_only no lookup error occurs.
C3_LabelPolicy ==
    /\ spacy_format =>
        /\ EntitiesOf(train_examples) = PolicyEntities(SelectSeq(Processed, InTrain))
        /\ EntitiesOf(dev_examples) = PolicyEntities(SelectSeq(Processed, InDev))
        /\ EntitiesOf(test_examples) = PolicyEntities(SelectSeq(Processed, InTest))
    /\ \A k \in 1..Len(yielded) :
        Unmapped(yielded[k]) =>
            /\ k = Len(yielded)
            /\ pc \in {"body", "raised"}
            /\ pc = "raised" => error = "KeyError"
            /\ \A j \in 1..Len(Processed) : ~Unmapped(Processed[j])
            /\ ~result.returned
    /\ error = "KeyError" =>
        /\ pc = "raised" /\ yielded # <<>> /\ Unmapped(yielded[Len(yielded)])
    /\ span_only => error # "KeyError"

\* a lookup failure on a record whose ID is in none of the sets, raw records asked
C3_Witness ==
    /\ pc = "raised" /\ error = "KeyError"
    /\ ~spacy_format
    /\ yielded[Len(yielded)].pubmed_id \notin (id_files[1] \cup id_files[2] \cup id_files[3])
    /\ Len(yielded) = 2 /\ train_examples = <<yielded[1]>>
    /\ ~result.returned

-----------------------------------------------------------------------------
(* Properties of med_mentions_example_iterator *)

CorpusStripped == [i \in 1..Len(corpus) |-> strip(corpus[i])]
\* the runs of non-blank lines between the blank lines of the file
Segments == CutAt(CorpusStripped, <<>>)
\* the position in the file of the blank line that ends segment k
BlankAfter(k) ==
    CHOOSE p \in 1..Len(corpus) :
        /\ CorpusStripped[p] = <<>>
        /\ Cardinality({m \in 1..p : CorpusStripped[m] = <<>>}) = k
\* the blocks of the file: its segments, without the empty one a last blank line leaves
FileBlocks ==
    IF Segments[Len(Segments)] = <<>>
    THEN SubSeq(Segments, 1, Len(Segments) - 1)
    ELSE Segments
\* blocks of at least 2 lines that parse, separated by exactly one blank line,
\* with or without a blank line after the last
WellFormedCorpus ==
    \A k \in 1..Len(FileBlocks) :
        Len(FileBlocks[k]) >= 2 /\ process_example(FileBlocks[k]).ok

\* C8: over a well-formed corpus the generator yields one record per block, in
\* file order, with or without a last blank line: what it parses are the blocks
\* of the file, each once; its buffer is empty when it reads on after a yield;
\* nothing fails.
C8_OneRecordPerBlock ==
    (WellFormedCorpus /\ g_pc # "none") =>
        /\ pc # "raised"
        /\ Len(parsed) <= Len(FileBlocks)
        /\ \A k \in 1..Len(parsed) : parsed[k] = FileBlocks[k]
        /\ yielded = [k \in 1..Len(parsed) |-> process_example(FileBlocks[k]).value]
        /\ (g_pc = "reading" /\ g_pos > 1 /\ CorpusStripped[g_pos - 1] = <<>>) => lines = <<>>
        /\ g_pc = "finished" => Len(parsed) = Len(FileBlocks)

\* two different blocks, a blank line after each: two records, the last one once
C8_Witness ==
    /\ pc = "returned" /\ g_pc = "finished"
    /\ corpus = <<TitleLine("1"), AbstractLine("2"), BlankLine,
                  AbstractLine("2"), TitleLine("1"), BlankLine>>
    /\ Len(yielded) = 2
    /\ yielded[1].pubmed_id = Id1 /\ yielded[2].pubmed_id = Id2

\* segment k is followed by a blank line and has fewer than 2 lines
ShortBlock(k) == k < Len(Segments) /\ Len(Segments[k]) < 2

\* C9: a blank line reached with fewer than 2 lines buffered (none included) fails
\* the generator there: it never reads past that line and yields nothing from it
\* or after it, and read_full_med_mentions fails with it and returns no lists.
\* When the blocks before it parse, each of them has been yielded, and dealt with
\* by the caller, when the failure occurs.
C9_ShortBlockFails ==
    \A k \in 1..Len(Segments) :
        ShortBlock(k) =>
            /\ g_pos <= BlankAfter(k)
            /\ Len(yielded) < k /\ Len(parsed) <= k
            /\ pc \notin {"exhausted", "returned"} /\ ~result.returned
            /\ (g_pc = "reading" /\ g_pos = BlankAfter(k)) => Len(lines) < 2
            /\ ( /\ \A j \in 1..(k - 1) :
                      ~ShortBlock(j) /\ process_example(Segments[j]).ok
                 /\ pc = "raised" ) =>
                /\ g_pos = BlankAfter(k)
                /\ error \in {"IndexError", "ValueError"}
                /\ parsed = SubSeq(Segments, 1, k)
                /\ yielded = [j \in 1..(k - 1) |-> process_example(Segments[j]).value]
                /\ Processed = yielded

\* one block yielded and routed, then two blank lines in a row: the second is
\* reached with an empty buffer and the call fails there
C9_Witness ==
    /\ pc = "raised" /\ error = "IndexError"
    /\ Len(corpus) >= 4
    /\ corpus[3] = BlankLine /\ corpus[4] = BlankLine
    /\ g_pos = 4 /\ lines = <<>>
    /\ Len(yielded) = 1 /\ Len(train_examples) = 1
    /\ ~result.returned

=============================================================================
